---- MODULE Spec2Model ----
(***************************************************************************)
(* State-machine model of the Plynk client (src/plynk_api/plynk.py).       *)
(*                                                                         *)
(* One Plynk object, its curl_cffi session (cookie jar), the credential    *)
(* cache file on disk and the remote server.  The client is synchronous    *)
(* and single threaded: login() is split at its network requests and file  *)
(* operations (pc tracks the position inside the running call), accessors  *)
(* are one action each.  The server and the file system are the            *)
(* environment: every response status, body, Set-Cookie and every file     *)
(* operation outcome is chosen nondeterministically from small sets.       *)
(***************************************************************************)
EXTENDS Integers, Sequences, FiniteSets, TLC

(***************************************************************************)
(* Bounds                                                                  *)
(***************************************************************************)
\* number of distinct cookie values the server may hand out
MaxCookieVal == 2
\* number of distinct account numbers the server may report
MaxAccounts == 2

(***************************************************************************)
(* JSON values as Python sees them after response.json()                   *)
(***************************************************************************)
JNull == [tag |-> "null"]
JStr(s) == [tag |-> "str", s |-> s]
JNum(n) == [tag |-> "num", n |-> n]
JBool(b) == [tag |-> "bool", b |-> b]
JObj(f) == [tag |-> "obj", f |-> f]
JList(l) == [tag |-> "list", l |-> l]
\* a response body that is not JSON text at all
NotJson == [tag |-> "invalid"]
\* the empty dict {}
EmptyDict == JObj([k \in {} |-> JNull])

\* result of evaluating a Python expression: a value, or a raised exception
Val(v) == [exc |-> "none", v |-> v]
Raise(e) == [exc |-> e, v |-> JNull]

\* response.json()
Json(body) ==
    IF body.tag = "invalid" THEN Raise("JSONDecodeError") ELSE Val(body)

\* d.get(key, default): only dicts have .get
PyGet(r, key, default) ==
    IF r.exc # "none" THEN r
    ELSE IF r.v.tag # "obj" THEN Raise("AttributeError")
    ELSE IF key \in DOMAIN r.v.f THEN Val(r.v.f[key])
    ELSE Val(default)

\* d[key] with a string key
PyItem(r, key) ==
    IF r.exc # "none" THEN r
    ELSE IF r.v.tag # "obj" THEN Raise("TypeError")
    ELSE IF key \in DOMAIN r.v.f THEN Val(r.v.f[key])
    ELSE Raise("KeyError")

\* x[0]
PyFirst(r) ==
    IF r.exc # "none" THEN r
    ELSE IF r.v.tag = "list"
         THEN IF Len(r.v.l) > 0 THEN Val(r.v.l[1]) ELSE Raise("IndexError")
    ELSE IF r.v.tag = "obj" THEN Raise("KeyError")
    ELSE IF r.v.tag = "str"
         THEN IF r.v.s # "" THEN Val(JStr("<char>")) ELSE Raise("IndexError")
    ELSE Raise("TypeError")

\* str(x), as used by an f-string
PyStr(v) ==
    CASE v.tag = "str" -> v.s
      [] v.tag = "null" -> "None"
      [] v.tag = "num" -> ToString(v.n)
      [] v.tag = "bool" -> IF v.b THEN "True" ELSE "False"
      [] v.tag = "obj" -> "<dict>"
      [] v.tag = "list" -> "<list>"

\* truthiness of a value
PyTruthy(v) ==
    CASE v.tag = "str" -> v.s # ""
      [] v.tag = "null" -> FALSE
      [] v.tag = "num" -> v.n # 0
      [] v.tag = "bool" -> v.b
      [] v.tag = "obj" -> DOMAIN v.f # {}
      [] v.tag = "list" -> Len(v.l) > 0

(***************************************************************************)
(* Cookies and the credential cache file                                   *)
(***************************************************************************)
CookieValues == 1..MaxCookieVal
Cookies == {[domain |-> "plynk", path |-> "/", name |-> "sid", value |-> v] :
              v \in CookieValues}
CookieKey(c) == <<c.domain, c.path, c.name>>
\* a cookie jar holds at most one cookie per (domain, path, name)
Jars == {j \in SUBSET Cookies :
           \A c1 \in j, c2 \in j : CookieKey(c1) = CookieKey(c2) => c1 = c2}
EmptyJar == {}
\* what a response's Set-Cookie headers do to the session's jar
SetCookie(j, setc) ==
    {c \in j : \A n \in setc : CookieKey(n) # CookieKey(c)} \cup setc
\* Set-Cookie contents the server may send
SetCookieChoices == {EmptyJar} \cup {{c} : c \in Cookies}

FileAbsent == [state |-> "absent", cookies |-> EmptyJar]
FileCorrupt == [state |-> "corrupt", cookies |-> EmptyJar]
FileOf(j) == [state |-> "valid", cookies |-> j]
Files == {FileAbsent, FileCorrupt} \cup {FileOf(j) : j \in Jars}

(***************************************************************************)
(* The client object                                                       *)
(***************************************************************************)
VARIABLES
    config,          \* username, password, filename, path, proxy_url, proxy_auth
    session,         \* self.session: cookie jar and proxy settings
    account_number,  \* self.account_number (JNull is Python's None)
    logged_in,       \* self.logged_in
    file,            \* the credential cache file <path or .>/<filename>
    pc,              \* position inside the running login() call, or "idle"
    reqs,            \* network requests issued by the current / last call
    result,          \* outcome of the current / last call
    lastBody,        \* body of the last response received by the call
    session_status,  \* login(): the status parsed from the poll response
    start,           \* observer: client state when the current call began
    login_ok,        \* observer: some login() of this client returned True
    otp_calls        \* observer: number of otp_callback invocations

vars == <<config, session, account_number, logged_in, file, pc, reqs, result,
          lastBody, session_status, start, login_ok, otp_calls>>

None == "None"
Configs == {[username |-> "user", password |-> "secret",
             filename |-> "plynk_credentials.pkl", path |-> None,
             proxy_url |-> u, proxy_auth |-> a] :
               <<u, a>> \in {<<None, None>>, <<"http://proxy", "proxyuser:pw">>}}

\* requests.Session(impersonate=..., timeout=10) plus the proxy settings
NewSession(proxy_url, proxy_auth) ==
    [cookies |-> EmptyJar,
     proxies |-> IF proxy_url # None THEN proxy_url ELSE None,
     proxy_auth |-> IF proxy_url # None /\ proxy_auth # None
                    THEN proxy_auth ELSE None]

\* _load_credentials reading a key the file does not have
LoadCredentials_WrongKey(s, f) == s

\* jar._cookies.update(credentials.get("cookies", {})): _cookies is keyed by
\* domain, so a loaded domain replaces the jar's entry for that domain
LoadCredentials(s, f) ==
    IF f.state = "valid"
    THEN [s EXCEPT !.cookies =
            {c \in s.cookies : \A n \in f.cookies : n.domain # c.domain}
              \cup f.cookies]
    ELSE s

\* lines 61-63: what the try block of _load_credentials raises
LoadError(f) == IF f.state = "corrupt" THEN "UnpicklingError" ELSE "none"

\* _load_credentials without its try/except
LoadCredentialsExc_NoCatch(f) == LoadError(f)

\* lines 66-67: except Exception logs the error and goes on
LoadCredentialsExc(f) ==
    IF LoadError(f) \in {"none", "UnpicklingError"} THEN "none"
    ELSE LoadError(f)

\* _save_credentials dumping an empty mapping
SaveCredentials_Empty(s) == FileOf(EmptyJar)

\* the file _save_credentials leaves behind when open() and dump() succeed
SaveCredentials(s) == FileOf(s.cookies)

\* statuses a response may carry; 0 stands for "no response": the request
\* raised (timeout, connection error)
NoResponse == 0
Statuses == {NoResponse, 200, 204, 401}
IsOk(status) == 200 <= status /\ status < 300

\* a request without raise_for_status()
RaiseForStatus_Never(status) == FALSE

\* response.raise_for_status()
RaiseForStatus(status) == ~IsOk(status)

NoBody == [tag |-> "nobody"]
Req(kind, status) ==
    [kind |-> kind, cookies |-> session.cookies, status |-> status]

NoMsg == <<"", "">>
Idle == [op |-> "none", exc |-> "none", msg |-> NoMsg, ret |-> JNull]
Running(op) == [op |-> op, exc |-> "running", msg |-> NoMsg, ret |-> JNull]
Returned(op, v) == [op |-> op, exc |-> "none", msg |-> NoMsg, ret |-> v]
Raised(op, e, m) == [op |-> op, exc |-> e, msg |-> m, ret |-> JNull]

Snapshot == [logged_in |-> logged_in, file |-> file, session |-> session,
             account_number |-> account_number]
NoStatus == [tag |-> "unset"]

(***************************************************************************)
(* Construction                                                            *)
(***************************************************************************)
Init ==
    /\ config \in Configs
    /\ file \in Files
    /\ session = LoadCredentials(
                    NewSession(config.proxy_url, config.proxy_auth), file)
    /\ account_number = JNull
    /\ logged_in = FALSE
    /\ pc = "idle"
    /\ reqs = <<>>
    /\ result = Idle
    /\ lastBody = NoBody
    /\ session_status = NoStatus
    /\ start = [logged_in |-> logged_in, file |-> file, session |-> session,
                account_number |-> account_number]
    /\ login_ok = FALSE
    /\ otp_calls = 0

\* A new process run: a new Plynk object with the same arguments, built on
\* whatever cache file the previous object left behind.
Construct ==
    /\ pc = "idle"
    /\ session' = LoadCredentials(
                    NewSession(config.proxy_url, config.proxy_auth), file)
    /\ account_number' = JNull
    /\ logged_in' = FALSE
    /\ reqs' = <<>>
    /\ result' = IF LoadCredentialsExc(file) = "none"
                 THEN Returned("__init__", JNull)
                 ELSE Raised("__init__", LoadCredentialsExc(file), NoMsg)
    /\ lastBody' = NoBody
    /\ session_status' = NoStatus
    /\ start' = Snapshot
    /\ login_ok' = FALSE
    /\ otp_calls' = 0
    /\ UNCHANGED <<config, file, pc>>

(***************************************************************************)
(* login()                                                                 *)
(***************************************************************************)
\* _verify_login with the comparison inverted
VerifyLogin_Inverted(status) == status # NoResponse /\ status # 200

\* _verify_login accepting every 2xx status
VerifyLogin_Any2xx(status) == IsOk(status)

\* _verify_login: any exception and any status other than 200 give False
VerifyLogin(status) == status # NoResponse /\ status = 200

\* login() dropping logged_in when the verify probe fails
LoginVerify_ResetsLogin ==
    /\ pc = "idle"
    /\ \E status \in Statuses :
         /\ reqs' = <<Req("verify", status)>>
         /\ IF VerifyLogin(status)
            THEN /\ logged_in' = TRUE
                 /\ pc' = "fetch_reuse"
            ELSE /\ logged_in' = FALSE
                 /\ pc' = "clear"
    /\ result' = Running("login")
    /\ lastBody' = NoBody
    /\ session_status' = NoStatus
    /\ start' = Snapshot
    /\ UNCHANGED <<config, session, account_number, file, login_ok, otp_calls>>

\* lines 97-108: the verify probe and the branch on its result
LoginVerify ==
    /\ pc = "idle"
    /\ \E status \in Statuses :
         /\ reqs' = <<Req("verify", status)>>
         /\ IF VerifyLogin(status)
            THEN /\ logged_in' = TRUE
                 /\ pc' = "fetch_reuse"
            ELSE /\ logged_in' = logged_in
                 /\ pc' = "clear"
    /\ result' = Running("login")
    /\ lastBody' = NoBody
    /\ session_status' = NoStatus
    /\ start' = Snapshot
    /\ UNCHANGED <<config, session, account_number, file, login_ok, otp_calls>>

\* _clear_credentials calling _set_session without the proxy arguments
ClearedSession_NoProxy == NewSession(None, None)

\* _clear_credentials without the call of _set_session
ClearedSession_KeepsJar == session

\* _clear_credentials: the session _set_session installs
ClearedSession == NewSession(config.proxy_url, config.proxy_auth)

\* _clear_credentials without the os.remove call
LoginClear_KeepsFile ==
    /\ pc = "clear"
    /\ \E removed \in BOOLEAN :
         IF file.state = "absent" \/ removed
         THEN /\ file' = file
              /\ session' = ClearedSession
              /\ pc' = "auth"
              /\ result' = result
         ELSE /\ file' = file
              /\ session' = session
              /\ pc' = "idle"
              /\ result' = Raised("login", "OSError", NoMsg)
    /\ UNCHANGED <<config, account_number, logged_in, reqs, lastBody,
                   session_status, start, login_ok, otp_calls>>

\* line 108: _clear_credentials(); os.remove may raise OSError, and then
\* _set_session is not reached and login() ends with that error
LoginClear ==
    /\ pc = "clear"
    /\ \E removed \in BOOLEAN :
         IF file.state = "absent" \/ removed
         THEN /\ file' = FileAbsent
              /\ session' = ClearedSession
              /\ pc' = "auth"
              /\ result' = result
         ELSE /\ file' = file
              /\ session' = session
              /\ pc' = "idle"
              /\ result' = Raised("login", "OSError", NoMsg)
    /\ UNCHANGED <<config, account_number, logged_in, reqs, lastBody,
                   session_status, start, login_ok, otp_calls>>

\* the password authentication repeated after a refused attempt
LoginAuth_Retry ==
    /\ pc = "auth"
    /\ \E status \in Statuses :
       \E setc \in IF status = 200 THEN SetCookieChoices ELSE {EmptyJar} :
         /\ reqs' = Append(reqs, Req("auth", status))
         /\ session' = [session EXCEPT
                          !.cookies = SetCookie(session.cookies, setc)]
         /\ IF status = NoResponse
            THEN /\ pc' = "idle"
                 /\ result' = Raised("login", "RequestsError", NoMsg)
            ELSE IF RaiseForStatus(status)
            THEN /\ pc' = "auth"
                 /\ result' = result
            ELSE /\ pc' = "poll"
                 /\ result' = result
    /\ UNCHANGED <<config, account_number, logged_in, file, lastBody,
                   session_status, start, login_ok, otp_calls>>

\* lines 112-116: POST username and password, then raise_for_status()
LoginAuth ==
    /\ pc = "auth"
    /\ \E status \in Statuses :
       \E setc \in IF status = 200 THEN SetCookieChoices ELSE {EmptyJar} :
         /\ reqs' = Append(reqs, Req("auth", status))
         /\ session' = [session EXCEPT
                          !.cookies = SetCookie(session.cookies, setc)]
         /\ IF status = NoResponse
            THEN /\ pc' = "idle"
                 /\ result' = Raised("login", "RequestsError", NoMsg)
            ELSE IF RaiseForStatus(status)
            THEN /\ pc' = "idle"
                 /\ result' = Raised("login", "HTTPError", NoMsg)
            ELSE /\ pc' = "poll"
                 /\ result' = result
    /\ UNCHANGED <<config, account_number, logged_in, file, lastBody,
                   session_status, start, login_ok, otp_calls>>

\* a response: a status with a body, or no response at all; the bodies
\* under test come with status 200, the other statuses with an empty
\* object or with text that is not JSON
Responses(bodies) ==
    {[status |-> NoResponse, body |-> NoBody]} \cup
    {[status |-> 200, body |-> b] : b \in bodies} \cup
    {[status |-> st, body |-> b] :
        st \in Statuses \ {NoResponse, 200}, b \in {EmptyDict, NotJson}}

PollBody(m) ==
    JObj([responseBaseInfo |-> JObj([status |-> JObj([message |-> m])])])
PollBodies ==
    {PollBody(JStr("Session Created")),
     PollBody(JStr("Authentication Not Completed")),
     PollBody(JStr("Something Else")),
     PollBody(JNull),
     EmptyDict,
     JObj([responseBaseInfo |-> EmptyDict]),
     JObj([responseBaseInfo |-> JObj([status |-> EmptyDict])]),
     JObj([responseBaseInfo |-> JNull]),
     JObj([responseBaseInfo |-> JObj([status |-> JNull])]),
     JList(<<>>),
     NotJson}

\* lines 128-132: poll_response.json() and the .get() chain
SessionStatus(body) ==
    PyGet(PyGet(PyGet(Json(body), "responseBaseInfo", EmptyDict),
                "status", EmptyDict),
          "message", JStr(""))

\* the branch without its OTP case
StatusBranch_NoOtp(st) ==
    IF st # JStr("Session Created") THEN "rejected" ELSE "created"

\* lines 134-140: the branch on session_status
StatusBranch(st) ==
    IF st = JStr("Authentication Not Completed") THEN "otp"
    ELSE IF st # JStr("Session Created") THEN "rejected"
    ELSE "created"

MsgLoginFailed(st) == <<"Login failed with unexpected status: ", PyStr(st)>>

\* lines 122-144: the poll request, its status check and the status branch
LoginPoll ==
    /\ pc = "poll"
    /\ \E resp \in Responses(PollBodies) :
         LET st == SessionStatus(resp.body) IN
         /\ reqs' = Append(reqs, Req("poll", resp.status))
         /\ lastBody' = resp.body
         /\ IF resp.status = NoResponse
            THEN /\ result' = Raised("login", "RequestsError", NoMsg)
                 /\ UNCHANGED <<session_status, logged_in>>
                 /\ pc' = "idle"
            ELSE IF RaiseForStatus(resp.status)
            THEN /\ result' = Raised("login", "HTTPError", NoMsg)
                 /\ UNCHANGED <<session_status, logged_in>>
                 /\ pc' = "idle"
            ELSE IF st.exc # "none"
            THEN /\ result' = Raised("login", st.exc, NoMsg)
                 /\ UNCHANGED <<session_status, logged_in>>
                 /\ pc' = "idle"
            ELSE /\ session_status' = st.v
                 /\ CASE StatusBranch(st.v) = "otp" ->
                           /\ result' = Raised("login", "NotImplementedError",
                                  <<"OTP flow is defined but needs to be triggered to be tested.", "">>)
                           /\ logged_in' = logged_in
                           /\ pc' = "idle"
                      [] StatusBranch(st.v) = "rejected" ->
                           /\ result' = Raised("login", "RuntimeError",
                                               MsgLoginFailed(st.v))
                           /\ logged_in' = logged_in
                           /\ pc' = "idle"
                      [] StatusBranch(st.v) = "created" ->
                           /\ result' = result
                           /\ logged_in' = TRUE
                           /\ pc' = "fetch_fresh"
    /\ UNCHANGED <<config, session, account_number, file, start, login_ok,
                   otp_calls>>

AccountNumbers == {JStr(ToString(i)) : i \in 1..MaxAccounts}
DetailsBody(a) ==
    JObj([user |-> JObj([customer |->
        JObj([accounts |-> JList(<<JObj([accountNumber |-> a])>>)])])])
DetailsBodies ==
    {DetailsBody(a) : a \in AccountNumbers} \cup
    {DetailsBody(JNull),
     EmptyDict,
     JObj([user |-> JObj([customer |-> JObj([accounts |-> JList(<<>>)])])]),
     JObj([user |-> JObj([customer |-> JObj([accounts |-> JList(<<JNull>>)])])]),
     JObj([user |-> JNull]),
     JList(<<>>),
     NotJson}

MsgAccountParse ==
    <<"Could not parse account number from details response: ", "">>

\* _fetch_account_number keeping an account number the client already has
FetchAccountNumber_Cached(resp) ==
    LET path == PyItem(PyFirst(PyItem(PyItem(PyItem(Json(resp.body),
                   "user"), "customer"), "accounts")), "accountNumber")
    IN IF resp.status = NoResponse THEN Raise("RequestsError")
       ELSE IF RaiseForStatus(resp.status) THEN Raise("HTTPError")
       ELSE IF path.exc \in {"KeyError", "IndexError"}
            THEN Raise("RuntimeError")
       ELSE IF path.exc = "none" /\ account_number # JNull
            THEN Val(account_number)
       ELSE path

\* _fetch_account_number: the value returned or the exception raised
FetchAccountNumber(resp) ==
    LET path == PyItem(PyFirst(PyItem(PyItem(PyItem(Json(resp.body),
                   "user"), "customer"), "accounts")), "accountNumber")
    IN IF resp.status = NoResponse THEN Raise("RequestsError")
       ELSE IF RaiseForStatus(resp.status) THEN Raise("HTTPError")
       ELSE IF path.exc \in {"KeyError", "IndexError"}
            THEN Raise("RuntimeError")
       ELSE path

\* _save_credentials called on the session-reuse path as well
SavesAfterFetch_Always(fresh) == TRUE

\* lines 104 and 146: what follows the account-number fetch on each path
SavesAfterFetch(fresh) == fresh

\* lines 101-104 (fresh = FALSE) and 145 (fresh = TRUE)
LoginFetch(fresh) ==
    /\ pc = IF fresh THEN "fetch_fresh" ELSE "fetch_reuse"
    /\ \E resp \in Responses(DetailsBodies) :
         LET r == FetchAccountNumber(resp) IN
         /\ reqs' = Append(reqs, Req("details", resp.status))
         /\ lastBody' = resp.body
         /\ IF r.exc # "none"
            THEN /\ result' = Raised("login", r.exc,
                                 IF r.exc = "RuntimeError"
                                 THEN MsgAccountParse ELSE NoMsg)
                 /\ pc' = "idle"
                 /\ UNCHANGED <<account_number, login_ok>>
            ELSE /\ account_number' = r.v
                 /\ IF SavesAfterFetch(fresh)
                    THEN /\ pc' = "save"
                         /\ UNCHANGED <<result, login_ok>>
                    ELSE /\ pc' = "idle"
                         /\ result' = Returned("login", JBool(TRUE))
                         /\ login_ok' = TRUE
    /\ UNCHANGED <<config, session, logged_in, file, session_status, start,
                   otp_calls>>

LoginFetchReuse == LoginFetch(FALSE)
LoginFetchFresh == LoginFetch(TRUE)

\* lines 146-149: _save_credentials(); makedirs/open may raise OSError
LoginSave ==
    /\ pc = "save"
    /\ \E written \in BOOLEAN :
         IF written
         THEN /\ file' = SaveCredentials(session)
              /\ result' = Returned("login", JBool(TRUE))
              /\ login_ok' = TRUE
         ELSE /\ file' = file
              /\ result' = Raised("login", "OSError", NoMsg)
              /\ login_ok' = login_ok
    /\ pc' = "idle"
    /\ UNCHANGED <<config, session, account_number, logged_in, reqs, lastBody,
                   session_status, start, otp_calls>>

(***************************************************************************)
(* Data accessors                                                          *)
(***************************************************************************)
\* check_login without its test
CheckLogin_NoGate(li) == TRUE

\* check_login: the wrapped function runs only when self.logged_in is set
CheckLogin(li) == li
MsgNotLoggedIn == <<"Plynk not logged in. Please login first.", "">>

\* request, raise_for_status(), response.json()
ResponseJson(resp) ==
    IF resp.status = NoResponse THEN Raise("RequestsError")
    ELSE IF RaiseForStatus(resp.status) THEN Raise("HTTPError")
    ELSE Json(resp.body)

\* amounts the server may report, and the strings float() accepts
Amounts == {0, 100}
PyFloat(r) ==
    IF r.exc # "none" THEN r
    ELSE CASE r.v.tag = "num" -> Val(JNum(r.v.n))
           [] r.v.tag = "bool" -> Val(JNum(IF r.v.b THEN 1 ELSE 0))
           [] r.v.tag = "str" ->
                IF \E n \in Amounts : ToString(n) = r.v.s
                THEN Val(JNum(CHOOSE n \in Amounts : ToString(n) = r.v.s))
                ELSE Raise("ValueError")
           [] OTHER -> Raise("TypeError")

\* "key" in x
PyIn(key, v) ==
    CASE v.tag = "obj" -> Val(JBool(key \in DOMAIN v.f))
      [] v.tag = "list" ->
           Val(JBool(\E i \in 1..Len(v.l) : v.l[i] = JStr(key)))
      [] v.tag = "str" -> Val(JBool(v.s = key))
      [] OTHER -> Raise("TypeError")

\* a try block without its except clause
Except_Missing(r, classes) == r

\* turn the listed exception classes into RuntimeError, as an except clause
Except(r, classes) ==
    IF r.exc \in classes THEN Raise("RuntimeError") ELSE r

BalanceBody(t) ==
    JObj([accounts |-> JList(<<JObj([balanceSummary |->
                                      JObj([totalAssets |-> t])])>>)])
BalanceBodies ==
    {BalanceBody(JNum(100)), BalanceBody(JStr("100")), BalanceBody(JStr("abc")),
     BalanceBody(JNull),
     JObj([accounts |-> JList(<<>>)]),
     EmptyDict,
     JObj([accounts |-> JList(<<JObj([balanceSummary |-> EmptyDict])>>)]),
     JObj([accounts |-> JNull]),
     JObj([accounts |-> JList(<<JNull>>)]),
     JObj([accounts |-> JList(<<EmptyDict>>)]),
     JList(<<>>),
     JNull,
     NotJson}

\* get_account_total testing only that the "accounts" key is there
AccountTotal_NoTruthTest(resp) ==
    LET j == ResponseJson(resp)
        has == IF j.exc # "none" THEN j ELSE PyIn("accounts", j.v)
        accounts == PyItem(j, "accounts")
    IN IF has.exc # "none" THEN has
       ELSE IF has.v.b
            THEN Except(PyFloat(PyItem(PyItem(PyFirst(accounts),
                            "balanceSummary"), "totalAssets")),
                        {"KeyError", "ValueError", "IndexError"})
       ELSE Val(JNum(0))

\* get_account_total, lines 190-196
AccountTotal(resp) ==
    LET j == ResponseJson(resp)
        has == IF j.exc # "none" THEN j ELSE PyIn("accounts", j.v)
        accounts == PyItem(j, "accounts")
    IN IF has.exc # "none" THEN has
       ELSE IF has.v.b /\ accounts.exc # "none" THEN accounts
       ELSE IF has.v.b /\ PyTruthy(accounts.v)
            THEN Except(PyFloat(PyItem(PyItem(PyFirst(accounts),
                            "balanceSummary"), "totalAssets")),
                        {"KeyError", "ValueError", "IndexError"})
       ELSE Val(JNum(0))
MsgAccountTotal == <<"Unable to parse account total value.", "">>

PositionsBody(p) ==
    JObj([accounts |-> JList(<<JObj([positionsSummary |->
                                      JObj([positions |-> p])])>>)])
PositionsBodies ==
    {PositionsBody(JList(<<JStr("AAPL")>>)),
     JObj([accounts |-> JList(<<EmptyDict>>)]),
     JObj([accounts |-> JList(<<JObj([positionsSummary |-> JNull])>>)]),
     JObj([accounts |-> JList(<<>>)]),
     EmptyDict,
     NotJson}

\* get_positions, lines 200-203
Positions(resp) == ResponseJson(resp)

\* get_account_holdings, lines 207-208
AccountHoldings(resp) ==
    PyGet(PyGet(PyFirst(PyItem(Positions(resp), "accounts")),
                "positionsSummary", EmptyDict),
          "positions", JList(<<>>))

StockBody(p) == JObj([securityDetails |-> JObj([lastPrice |-> p])])
StockBodies ==
    {StockBody(JStr("100")), StockBody(JNum(100)), StockBody(JStr("abc")),
     StockBody(JNull),
     JObj([securityDetails |-> EmptyDict]),
     JObj([securityDetails |-> JNull]),
     EmptyDict,
     NotJson}

\* get_stock_details, lines 220-223
StockDetails(resp) == ResponseJson(resp)

\* get_stock_price, lines 212-216
StockPrice(resp) ==
    Except(PyFloat(PyItem(PyItem(StockDetails(resp), "securityDetails"),
                          "lastPrice")),
           {"KeyError", "ValueError"})
MsgStockPrice == <<"Unable to get float value for stock price.", "">>

\* check_login refusing the call: the wrapped function does not run
NotLoggedIn(op) ==
    /\ result' = Raised(op, "RuntimeError", MsgNotLoggedIn)
    /\ reqs' = <<>>
    /\ lastBody' = NoBody

\* the wrapped function: one request with response resp, and r the value
\* the function extracts from it or the exception it raises
Wrapped(op, kind, resp, r, parseMsg) ==
    /\ reqs' = <<Req(kind, resp.status)>>
    /\ lastBody' = resp.body
    /\ result' = IF r.exc = "none" THEN Returned(op, r.v)
                 ELSE Raised(op, r.exc,
                             IF r.exc = "RuntimeError" THEN parseMsg ELSE NoMsg)

\* what no accessor call changes
AccessorFrame ==
    /\ pc = "idle"
    /\ start' = Snapshot
    /\ session_status' = NoStatus
    /\ UNCHANGED <<config, session, account_number, logged_in, file, pc,
                   login_ok, otp_calls>>

GetAccountTotal ==
    /\ AccessorFrame
    /\ IF ~CheckLogin(logged_in) THEN NotLoggedIn("get_account_total")
       ELSE \E resp \in Responses(BalanceBodies) :
              Wrapped("get_account_total", "balance", resp,
                      AccountTotal(resp), MsgAccountTotal)

GetPositions ==
    /\ AccessorFrame
    /\ IF ~CheckLogin(logged_in) THEN NotLoggedIn("get_positions")
       ELSE \E resp \in Responses(PositionsBodies) :
              Wrapped("get_positions", "positions", resp, Positions(resp),
                      NoMsg)

\* the inner self.get_positions call passes check_login again: logged_in
\* cannot change in between
GetAccountHoldings ==
    /\ AccessorFrame
    /\ IF ~CheckLogin(logged_in) THEN NotLoggedIn("get_account_holdings")
       ELSE \E resp \in Responses(PositionsBodies) :
              Wrapped("get_account_holdings", "positions", resp,
                      AccountHoldings(resp), NoMsg)

GetStockPrice ==
    /\ AccessorFrame
    /\ IF ~CheckLogin(logged_in) THEN NotLoggedIn("get_stock_price")
       ELSE \E resp \in Responses(StockBodies) :
              Wrapped("get_stock_price", "stock", resp, StockPrice(resp),
                      MsgStockPrice)

GetStockDetails ==
    /\ AccessorFrame
    /\ IF ~CheckLogin(logged_in) THEN NotLoggedIn("get_stock_details")
       ELSE \E resp \in Responses(StockBodies) :
              Wrapped("get_stock_details", "stock", resp, StockDetails(resp),
                      NoMsg)

AccessorOps == {"get_account_total", "get_positions", "get_account_holdings",
                "get_stock_price", "get_stock_details"}

(***************************************************************************)
(* Specification                                                           *)
(***************************************************************************)
Next ==
    \/ Construct
    \/ LoginVerify
    \/ LoginClear
    \/ LoginAuth
    \/ LoginPoll
    \/ LoginFetchReuse
    \/ LoginFetchFresh
    \/ LoginSave
    \/ GetAccountTotal
    \/ GetPositions
    \/ GetAccountHoldings
    \/ GetStockPrice
    \/ GetStockDetails

Spec == Init /\ [][Next]_vars

TypeOK ==
    /\ config \in Configs
    /\ session.cookies \in Jars
    /\ logged_in \in BOOLEAN
    /\ file \in Files
    /\ pc \in {"idle", "clear", "auth", "poll", "fetch_reuse", "fetch_fresh",
               "save"}
    /\ Len(reqs) <= 4
    /\ otp_calls \in Nat

(***************************************************************************)
(* Properties                                                              *)
(***************************************************************************)
SessionCreated == JStr("Session Created")
AuthNotCompleted == JStr("Authentication Not Completed")
LoginEnded == pc = "idle" /\ result.op = "login"
LoginSuccess == Returned("login", JBool(TRUE))
Is2xx(status) == status \in 200..299
\* the last response is a 2xx account-details response that carries an
\* account number at user.customer.accounts[0].accountNumber
DetailsFetched ==
    /\ Len(reqs) > 0
    /\ reqs[Len(reqs)].kind = "details"
    /\ Is2xx(reqs[Len(reqs)].status)
    /\ \E a \in AccountNumbers \cup {JNull} : lastBody = DetailsBody(a)

\* C1: an accessor called while logged_in is false fails with the
\* not-logged-in error, issues no request and leaves the session, the
\* account number, logged_in and the cache file as they were.
C1_NotLoggedInGate ==
    (pc = "idle" /\ result.op \in AccessorOps /\ ~start.logged_in) =>
        /\ result = Raised(result.op, "RuntimeError", MsgNotLoggedIn)
        /\ reqs = <<>>
        /\ Snapshot = start

C1_Witness ==
    /\ pc = "idle"
    /\ result.op = "get_stock_price"
    /\ ~start.logged_in
    /\ result.exc = "RuntimeError"
    /\ session.cookies # EmptyJar
    /\ file.state = "valid"

\* C2: an accessor called while no login() of this client has returned
\* success fails with the not-logged-in error.
C2_GateUntilLoginSuccess ==
    (pc = "idle" /\ result.op \in AccessorOps /\ ~login_ok) =>
        result = Raised(result.op, "RuntimeError", MsgNotLoggedIn)

C4_Original ==
    (LoginEnded /\ reqs[1].status = 200) =>
        /\ logged_in
        /\ result = LoginSuccess
        /\ \A i \in 1..Len(reqs) : reqs[i].kind \notin {"auth", "poll"}

\* C4 as amended: a verify probe answered 200 makes login() set logged_in
\* and fetch the account number, with no password-authentication and no
\* poll request; it returns success when that fetch succeeds and otherwise
\* raises the fetch's error with logged_in left set.
C4_SessionReuse ==
    (result.op = "login" /\ reqs[1].status = 200) =>
        /\ logged_in
        /\ \A i \in 1..Len(reqs) : reqs[i].kind \notin {"auth", "poll"}
        /\ file = start.file /\ session = start.session
        /\ LoginEnded =>
             /\ Len(reqs) = 2 /\ reqs[2].kind = "details"
             /\ IF DetailsFetched
                THEN result = LoginSuccess /\ account_number \in
                                                AccountNumbers \cup {JNull}
                ELSE result.exc \notin {"none", "running"}

C4_Witness ==
    /\ LoginEnded
    /\ reqs[1].status = 200
    /\ result = LoginSuccess
    /\ ~start.logged_in
    /\ account_number \in AccountNumbers

\* C5: after an invalid verify probe the credentials are cleared before the
\* password-authentication request goes out: when login() is about to send
\* it the cache file is gone and the cookie jar is empty, the request is the
\* second of the call and carries no cookie, and the cache file stays absent
\* until the save step.
C5_ClearBeforeAuth ==
    /\ pc = "auth" =>
         /\ file = FileAbsent
         /\ session.cookies = EmptyJar
         /\ Len(reqs) = 1 /\ reqs[1].kind = "verify" /\ reqs[1].status # 200
    /\ \A i \in 1..Len(reqs) :
         reqs[i].kind = "auth" =>
             /\ i = 2
             /\ reqs[1].kind = "verify" /\ reqs[1].status # 200
             /\ reqs[i].cookies = EmptyJar
    /\ pc \in {"poll", "fetch_fresh", "save"} => file = FileAbsent

C5_Witness ==
    /\ Len(reqs) >= 2
    /\ reqs[2].kind = "auth"
    /\ reqs[1].cookies # EmptyJar
    /\ start.file.state = "valid"
    /\ file = FileAbsent

\* C6: a 2xx poll response with message "Authentication Not Completed" ends
\* login() at once with NotImplementedError; logged_in and account_number
\* keep the values they had when the call began, otp_callback has not been
\* invoked, no account-details request follows and no cache file is written.
C6_OtpRequired ==
    (/\ result.op = "login"
     /\ Len(reqs) = 3 /\ reqs[3].kind = "poll" /\ Is2xx(reqs[3].status)
     /\ lastBody = PollBody(AuthNotCompleted)) =>
        /\ pc = "idle"
        /\ result.exc = "NotImplementedError"
        /\ logged_in = start.logged_in
        /\ account_number = start.account_number
        /\ otp_calls = 0
        /\ file = FileAbsent

C6_Witness ==
    /\ LoginEnded
    /\ Len(reqs) = 3
    /\ lastBody = PollBody(AuthNotCompleted)
    /\ result.exc = "NotImplementedError"
    /\ ~logged_in
    /\ start.file.state = "valid"

\* the value found at responseBaseInfo.status.message of a JSON object, or
\* the empty string when that path does not lead to a value
PollMessage(body) ==
    IF /\ body.tag = "obj" /\ "responseBaseInfo" \in DOMAIN body.f
       /\ body.f.responseBaseInfo.tag = "obj"
       /\ "status" \in DOMAIN body.f.responseBaseInfo.f
       /\ body.f.responseBaseInfo.f.status.tag = "obj"
       /\ "message" \in DOMAIN body.f.responseBaseInfo.f.status.f
    THEN body.f.responseBaseInfo.f.status.f.message
    ELSE JStr("")

\* C7: a 2xx poll response (a JSON object) whose status message is neither
\* "Session Created" nor "Authentication Not Completed", or is absent, makes
\* login() fail with the login-rejected RuntimeError that carries the raw
\* status, with logged_in as it was and no cache file.
C7_Rejected ==
    (/\ LoginEnded
     /\ Len(reqs) = 3 /\ reqs[3].kind = "poll" /\ Is2xx(reqs[3].status)
     /\ lastBody.tag = "obj"
     /\ PollMessage(lastBody) \notin {SessionCreated, AuthNotCompleted}) =>
        /\ result.exc = "RuntimeError"
        /\ result.msg = <<"Login failed with unexpected status: ",
                          PyStr(PollMessage(lastBody))>>
        /\ logged_in = start.logged_in
        /\ file = FileAbsent

C9_VerifyNeverRaises ==
    [][(pc = "idle" /\ result'.op = "login") =>
          /\ result'.exc = "running"
          /\ Len(reqs') = 1 /\ reqs'[1].kind = "verify"
          /\ IF reqs'[1].status = 200
             THEN pc' = "fetch_reuse"
             ELSE pc' = "clear" /\ logged_in' = logged_in]_vars

C9_Witness ==
    /\ result.op = "login"
    /\ pc = "clear"
    /\ reqs[1].status = NoResponse

\* C10: a response with a status outside 200..299 to any request other than
\* the verify probe is the last request of its call, and the call ends with
\* HTTPError whatever the body is; login() has then written no cache file.
C10_TransportError ==
    \A i \in 1..Len(reqs) :
        (/\ reqs[i].kind # "verify"
         /\ reqs[i].status # NoResponse
         /\ ~Is2xx(reqs[i].status)) =>
            /\ i = Len(reqs)
            /\ pc = "idle"
            /\ result.exc = "HTTPError"
            /\ file \in {start.file, FileAbsent}

C10_Witness ==
    /\ LoginEnded
    /\ Len(reqs) = 2 /\ reqs[2].kind = "auth" /\ reqs[2].status = 401
    /\ result.exc = "HTTPError"
    /\ file = FileAbsent

\* a get_account_total call that received a 2xx response
TotalAnswered ==
    /\ pc = "idle"
    /\ result.op = "get_account_total"
    /\ Len(reqs) = 1 /\ Is2xx(reqs[1].status)
TotalDefault == Returned("get_account_total", JNum(0))
TotalParseError == Raised("get_account_total", "RuntimeError", MsgAccountTotal)
NoAccountsBody == JObj([accounts |-> JList(<<>>)])
NoSummaryBody ==
    JObj([accounts |-> JList(<<JObj([balanceSummary |-> EmptyDict])>>)])

\* C11: get_account_total with a 2xx response returns 0.0 for
\* {"accounts":[]} and for {}, raises the parse error for
\* {"accounts":[{"balanceSummary":{}}]} and returns totalAssets when it is a
\* number.
C11_AccountTotalCases ==
    TotalAnswered =>
        /\ lastBody = NoAccountsBody => result = TotalDefault
        /\ lastBody = EmptyDict => result = TotalDefault
        /\ lastBody = NoSummaryBody => result = TotalParseError
        /\ \A n \in Amounts :
             lastBody = BalanceBody(JNum(n)) =>
                 result = Returned("get_account_total", JNum(n))

C11_Witness ==
    /\ TotalAnswered
    /\ lastBody = NoAccountsBody
    /\ result = TotalDefault

\* C12 as stated: the 0.0 default is returned only when the "accounts" key is
\* absent; with the key present and its value empty or malformed the parse
\* error is raised.
C12_Original ==
    (TotalAnswered /\ lastBody.tag = "obj") =>
        /\ result = TotalDefault => "accounts" \notin DOMAIN lastBody.f
        /\ ("accounts" \in DOMAIN lastBody.f
              /\ \A t \in {JNum(100), JStr("100")} : lastBody # BalanceBody(t))
             => result = TotalParseError

\* C12 as amended: the 0.0 default is returned when the "accounts" key is
\* absent and also when its value is empty (an empty list, null); the parse
\* error is raised when accounts[0] is an object in which balanceSummary or
\* totalAssets is missing or totalAssets is a string that is not a number.
C12_DefaultAndParseError ==
    (TotalAnswered /\ lastBody.tag = "obj") =>
        /\ ("accounts" \notin DOMAIN lastBody.f
              \/ lastBody \in {NoAccountsBody, JObj([accounts |-> JNull])})
             => result = TotalDefault
        /\ lastBody \in {NoSummaryBody, BalanceBody(JStr("abc")),
                         JObj([accounts |-> JList(<<EmptyDict>>)])}
             => result = TotalParseError

C12_Witness ==
    /\ TotalAnswered
    /\ lastBody = BalanceBody(JStr("abc"))
    /\ result = TotalParseError

\* C13: on a 2xx JSON response whose extraction path is missing, empty or of
\* the wrong type, the account-number fetch, get_stock_price and
\* get_account_total fail with their parse error (RuntimeError) and with no
\* other error.
C13_ParseErrorOnly ==
    /\ (/\ LoginEnded
        /\ reqs[Len(reqs)].kind = "details" /\ Is2xx(reqs[Len(reqs)].status)
        /\ lastBody.tag # "invalid"
        /\ \A a \in AccountNumbers : lastBody # DetailsBody(a)) =>
           result = Raised("login", "RuntimeError", MsgAccountParse)
    /\ (/\ pc = "idle" /\ result.op = "get_stock_price"
        /\ Len(reqs) = 1 /\ Is2xx(reqs[1].status)
        /\ lastBody.tag # "invalid"
        /\ \A t \in {JNum(100), JStr("100")} : lastBody # StockBody(t)) =>
           result = Raised("get_stock_price", "RuntimeError", MsgStockPrice)
    /\ (/\ TotalAnswered
        /\ lastBody.tag = "obj" /\ "accounts" \in DOMAIN lastBody.f
        /\ lastBody \notin {NoAccountsBody, JObj([accounts |-> JNull])}
        /\ \A t \in {JNum(100), JStr("100")} : lastBody # BalanceBody(t)) =>
           result = TotalParseError

(***************************************************************************)
(* Saving and reloading the cookie jar                                     *)
(*                                                                         *)
(* A second specification for the cache round trip: cookies of two         *)
(* domains, a jar that any response may change, _save_credentials called   *)
(* on its own and a new client constructed on the file.                    *)
(***************************************************************************)
RtCookies ==
    {[domain |-> d, path |-> "/", name |-> "sid", value |-> v] :
        d \in {"ecaap", "digital"}, v \in CookieValues}
RtJars == {j \in SUBSET RtCookies :
             \A c1 \in j, c2 \in j : CookieKey(c1) = CookieKey(c2) => c1 = c2}
RtFiles == {FileAbsent, FileCorrupt} \cup {FileOf(j) : j \in RtJars}

InitRoundTrip ==
    /\ config \in Configs
    /\ file \in RtFiles
    /\ session = LoadCredentials(
                    NewSession(config.proxy_url, config.proxy_auth), file)
    /\ account_number = JNull
    /\ logged_in = FALSE
    /\ pc = "idle"
    /\ reqs = <<>>
    /\ result = Idle
    /\ lastBody = NoBody
    /\ session_status = NoStatus
    /\ start = [logged_in |-> logged_in, file |-> file, session |-> session,
                account_number |-> account_number]
    /\ login_ok = FALSE
    /\ otp_calls = 0

\* a response of the server stores a cookie in the session's jar
ReceiveCookie ==
    /\ pc = "idle"
    /\ \E c \in RtCookies :
         session' = [session EXCEPT !.cookies = SetCookie(session.cookies, {c})]
    /\ result' = Returned("request", JNull)
    /\ UNCHANGED <<config, account_number, logged_in, file, pc, reqs, lastBody,
                   session_status, start, login_ok, otp_calls>>

\* _save_credentials(), lines 71-81
SaveCredentialsCall ==
    /\ pc = "idle"
    /\ \E written \in BOOLEAN :
         IF written
         THEN /\ file' = SaveCredentials(session)
              /\ result' = Returned("_save_credentials", JNull)
         ELSE /\ file' = file
              /\ result' = Raised("_save_credentials", "OSError", NoMsg)
    /\ UNCHANGED <<config, session, account_number, logged_in, pc, reqs,
                   lastBody, session_status, start, login_ok, otp_calls>>

NextRoundTrip ==
    \/ ReceiveCookie
    \/ SaveCredentialsCall
    \/ Construct

SpecRoundTrip == InitRoundTrip /\ [][NextRoundTrip]_vars

C15_Construction ==
    result.op \in {"none", "__init__"} =>
        /\ result.exc = "none"
        /\ ~logged_in
        /\ account_number = JNull
        /\ file.state \in {"absent", "corrupt"} =>
             session = NewSession(config.proxy_url, config.proxy_auth)
        /\ file.state = "valid" => session.cookies = file.cookies

C15_Witness ==
    /\ result.op = "__init__"
    /\ file.state = "corrupt"
    /\ start.logged_in
    /\ start.account_number # JNull

\* C16: when _clear_credentials returns, the cache file is gone, the session
\* has an empty cookie jar and the proxy URL and proxy auth it had before,
\* and the constructor arguments, logged_in and account_number are as they
\* were; when os.remove raises instead, nothing has changed.
C16_ClearCredentials ==
    [][pc = "clear" =>
         \/ /\ pc' = "auth"
            /\ file' = FileAbsent
            /\ session'.cookies = EmptyJar
            /\ session'.proxies = session.proxies
            /\ session'.proxy_auth = session.proxy_auth
            /\ UNCHANGED <<config, logged_in, account_number>>
         \/ /\ file.state # "absent"
            /\ result'.exc = "OSError"
            /\ UNCHANGED <<config, session, file, logged_in,
                           account_number>>]_vars

C16_Witness ==
    /\ pc = "auth"
    /\ start.file.state = "valid"
    /\ start.session.cookies # EmptyJar
    /\ session.cookies = EmptyJar
    /\ session.proxies # None
    /\ file = FileAbsent
    /\ logged_in

\* C17: after every login() that returned success, on either path, the
\* account number is the one at user.customer.accounts[0].accountNumber of
\* the account-details response of that call, whatever it was before.
C17_AccountNumberRederived ==
    (LoginEnded /\ result = LoginSuccess) =>
        /\ reqs[Len(reqs)].kind = "details"
        /\ Is2xx(reqs[Len(reqs)].status)
        /\ lastBody = DetailsBody(account_number)
        /\ Len(reqs) = IF reqs[1].status = 200 THEN 2 ELSE 4

C17_Witness ==
    /\ LoginEnded
    /\ result = LoginSuccess
    /\ start.account_number \in AccountNumbers
    /\ account_number \in AccountNumbers
    /\ account_number # start.account_number

\* C18: one login() call issues the verify probe, then either the
\* account-details fetch alone (probe answered 200) or the password
\* authentication, the poll and the account-details fetch, each at most once
\* and in that order; a request after the probe that gets no response or a
\* non-2xx status is the last one, and a call that ends without success ends
\* with the error raised.
C18_NoRetryFixedOrder ==
    result.op = "login" =>
        /\ [i \in 1..Len(reqs) |-> reqs[i].kind] \in
              {<<"verify">>, <<"verify", "details">>, <<"verify", "auth">>,
               <<"verify", "auth", "poll">>,
               <<"verify", "auth", "poll", "details">>}
        /\ Len(reqs) >= 2 => (reqs[2].kind = "details" <=> reqs[1].status = 200)
        /\ \A i \in 2..Len(reqs) :
             ~Is2xx(reqs[i].status) =>
                 /\ i = Len(reqs)
                 /\ pc = "idle"
                 /\ result.exc = IF reqs[i].status = NoResponse
                                 THEN "RequestsError" ELSE "HTTPError"
        /\ pc = "idle" =>
             (result = LoginSuccess \/ result.exc \notin {"none", "running"})
        /\ pc # "idle" => result.exc = "running"

C18_Witness ==
    /\ LoginEnded
    /\ Len(reqs) = 4
    /\ reqs[4].status = 401
    /\ result.exc = "HTTPError"

\* C19: logged_in of a client never goes from true to false: every step
\* other than the construction of a new client keeps it set, also a login()
\* that finds the session invalid, clears the credentials and fails; an
\* accessor called in such a state is not refused.
C19_LoggedInSticky ==
    [][/\ (logged_in /\ result'.op # "__init__") => logged_in'
       /\ (result.op \in AccessorOps /\ start.logged_in) =>
              (logged_in /\ result.msg # MsgNotLoggedIn)]_vars

C19_Witness ==
    /\ LoginEnded
    /\ start.logged_in
    /\ reqs[1].status # 200
    /\ Len(reqs) >= 2
    /\ result.exc = "HTTPError"
    /\ file = FileAbsent
    /\ logged_in

\* C20: a login() whose verify probe was invalid, that went on to the
\* password authentication and ended with an error leaves no cache file,
\* whether or not one existed when the call began.
C20_NoCacheAfterFailedFreshLogin ==
    (/\ LoginEnded
     /\ reqs[1].status # 200
     /\ Len(reqs) >= 2
     /\ result # LoginSuccess) =>
        /\ result.exc \notin {"none", "running"}
        /\ file = FileAbsent

C20_Witness ==
    /\ LoginEnded
    /\ reqs[1].status # 200
    /\ Len(reqs) = 3
    /\ result.exc = "NotImplementedError"
    /\ start.file.state = "valid"
    /\ file = FileAbsent

====
